---- MODULE Spec2Model ----
(***************************************************************************)
(* A model of the etcd v3 adapter of etcdsdk (src/etcdv3/etcdv3.go):       *)
(* NewClient, List, Val, Add, Put, Del and Members, run by concurrent      *)
(* callers against one key-value store and its cluster.                    *)
(*                                                                         *)
(* A key or path is a sequence of one-byte strings, so that prefixes,      *)
(* separators and the byte-wise order of Go's string comparison are        *)
(* computed and not assumed.                                               *)
(***************************************************************************)
EXTENDS Integers, Sequences, FiniteSets, TLC

(***************************************************************************)
(* Bounds of the model.                                                    *)
(***************************************************************************)
\* The number of concurrent callers.
NumProcs == 2
\* The number of calls the callers start in total.
MaxCalls == 2
\* The number of members of the cluster.
NumMembers == 2

Procs == 1..NumProcs

(***************************************************************************)
(* Strings.                                                                *)
(***************************************************************************)
Sep == "/"
\* A byte that is not valid UTF-8.
BadByte == "<ff>"

\* The byte value of each character that occurs in a key.
Ord == ("/" :> 47) @@ ("a" :> 97) @@ ("b" :> 98) @@ ("c" :> 99) @@ ("d" :> 100)
       @@ (BadByte :> 255)

\* Go's s < t on strings: byte-wise lexicographic order.
StrLess(s, t) ==
    \E i \in 1..(Len(s) + 1) :
        /\ i <= Len(t)
        /\ SubSeq(s, 1, i - 1) = SubSeq(t, 1, i - 1)
        /\ (i > Len(s) \/ Ord[s[i]] < Ord[t[i]])

HasPrefix(s, p) == Len(p) <= Len(s) /\ SubSeq(s, 1, Len(p)) = p

\* The position of the first separator of s, 0 when it has none.
IndexSep(s) ==
    IF \E i \in 1..Len(s) : s[i] = Sep
    THEN CHOOSE i \in 1..Len(s) : s[i] = Sep /\ \A j \in 1..(i - 1) : s[j] # Sep
    ELSE 0

\* The keys of the store and the paths that are listed.
PathA   == <<"/", "a">>
KeyAB   == <<"/", "a", "/", "b">>
KeyAC   == <<"/", "a", "/", "c">>
KeyACD  == <<"/", "a", "/", "c", "/", "d">>
KeyACb  == <<"/", "a", "/", "c", "/", "b">>
KeyAb   == <<"/", "a", "b">>

Keys == {KeyAB, KeyAC, KeyACD, KeyACb, KeyAb}
\* A key under "/a" that cannot be decoded; another client may have written it.
KeyBad  == <<"/", "a", "/", BadByte>>
\* Every key the store may hold.
StoreKeys == Keys \cup {KeyBad}
ListPaths == {PathA, KeyAC}

Values == {"1", "2"}
NoValue == ""

(***************************************************************************)
(* Errors.                                                                 *)
(***************************************************************************)
NoErr == "nil"
ERR_KEY_NOT_FOUND == "ERR_KEY_NOT_FOUND"
ERR_ADD_KEY == "ERR_ADD_KEY"
ERR_CONFIG_ISNIL == "ERR_CONFIG_ISNIL"
ERR_TLS_CONFIG_ISNIL == "ERR_TLS_CONFIG_ISNIL"
ERR_ETCD_ADDRESS_EMPTY == "ERR_ETCD_ADDRESS_EMPTY"
\* What the store client returns when the deadline of the call's context has
\* passed.
ErrDeadline == "context deadline exceeded"
\* What the store client returns when a call fails: any error of the store
\* or of the transport, the deadline of a single call included.
ErrStore == "store error"
\* What the conversion returns for a key that cannot be decoded.
ErrDecoding == "DecodingError"
\* What tls.X509KeyPair returns on a bad certificate or key.
ErrKeyPair == "tls: failed to parse key pair"
\* What clientv3.New returns when it cannot connect.
ErrConnect == "connect error"

(***************************************************************************)
(* model.Node and PathConverter.                                           *)
(***************************************************************************)
Node(path, value, isDir) == [Path |-> path, Value |-> value, IsDir |-> isDir]

Paths(l) == {l[i].Path : i \in 1..Len(l)}

\* The Node of one scanned entry under a prefix, as a sequence of zero or
\* one Node: the prefix is stripped; an empty remainder gives no Node; a
\* remainder with a further separator, after the one that may lead it,
\* collapses to its first segment, a directory without value, whose path is
\* the prefix and that segment with its leading separator ("/a/c" for the
\* key "/a/c/d" under "/a"); any other remainder is a leaf whose path is the
\* full key.
EntryNode(path, kv) ==
    LET rem  == SubSeq(kv.Key, Len(path) + 1, Len(kv.Key))
        lead == IF rem # <<>> /\ rem[1] = Sep THEN <<Sep>> ELSE <<>>
        body == SubSeq(rem, Len(lead) + 1, Len(rem))
        idx  == IndexSep(body)
    IN  IF rem = <<>> THEN <<>>
        ELSE IF idx = 0 THEN <<Node(kv.Key, kv.Value, FALSE)>>
        ELSE <<Node(path \o lead \o SubSeq(body, 1, idx - 1), NoValue, TRUE)>>

\* The entries in turn; an entry whose resulting path is already there adds
\* no Node.
RECURSIVE ConvertAcc(_, _, _)
ConvertAcc(path, kvs, acc) ==
    IF kvs = <<>> THEN acc
    ELSE LET n == EntryNode(path, Head(kvs))
         IN  IF n = <<>> \/ n[1].Path \in Paths(acc)
             THEN ConvertAcc(path, Tail(kvs), acc)
             ELSE ConvertAcc(path, Tail(kvs), acc \o n)

\* A key that cannot be decoded: it holds a byte that is no UTF-8.
Malformed(key) == \E i \in 1..Len(key) : key[i] = BadByte

\* sdk.ConvertToPath(path, kvs): the Nodes one level under path, one for
\* each resulting path, and the error; a malformed key fails the whole
\* conversion, and no Node is returned with the error.
ConvertToPath(path, kvs) ==
    IF \E i \in 1..Len(kvs) : Malformed(kvs[i].Key)
    THEN [list |-> <<>>, err |-> ErrDecoding]
    ELSE [list |-> ConvertAcc(path, kvs, <<>>), err |-> NoErr]

(***************************************************************************)
(* sort.Slice(list, func(i, j) { return list[i].Path < list[j].Path }).    *)
(***************************************************************************)
PathLess(n, m) == StrLess(n.Path, m.Path)

RECURSIVE Insert(_, _)
Insert(n, l) ==
    IF l = <<>> THEN <<n>>
    ELSE IF PathLess(n, Head(l)) THEN <<n>> \o l
    ELSE <<Head(l)>> \o Insert(n, Tail(l))

RECURSIVE InsertAll(_, _)
InsertAll(l, acc) ==
    IF l = <<>> THEN acc
    ELSE InsertAll(Tail(l), Insert(Head(l), acc))

Unsorted(l) == l

SortByPath(l) == InsertAll(l, <<>>)

(***************************************************************************)
(* The state.                                                              *)
(***************************************************************************)
VARIABLES
    kv,         \* the store: key -> [Value, Version], Version 0 when absent
    pc,         \* where each caller is in its call
    req,        \* the call each caller made last
    res,        \* the named results of that call, returned once pc is "idle"
    idx,        \* List, Members: the position of the loop
    ctxDone,    \* List, Members: whether the deadline of the first ctx has passed
    scanned,    \* history: the keys the prefix scan of List returned
    sorted,     \* history: the slice of List as it was after sort.Slice
    fetches,    \* history: the outcome of each follow-up fetch of List
    expiredAt,  \* history: the loop position at which that ctx expired, -1 if never
    connect,    \* history: how the connect step of NewClient ended
    atCall,     \* history: what the store held under the key when Add was called
    atStore,    \* history: what it held when the request of Add, Val or Del reached it
    sm,         \* the construction mutex: its holder, 0 when free
    calls,      \* the number of calls started
    roster,     \* the cluster: what MemberList answers
    leader,     \* the cluster: the member that leads now, 0 when none does
    members,    \* Members: the named result members
    probes      \* history: Members: what happened to each member of the roster

listVars == <<idx, ctxDone, scanned, sorted, fetches, expiredAt>>
hist == <<connect, atCall, atStore>>
memVars == <<roster, leader, members, probes>>
vars == <<kv, pc, req, res, idx, ctxDone, scanned, sorted, fetches,
          expiredAt, connect, atCall, atStore, sm, calls, roster, leader,
          members, probes>>

Absent == [Value |-> NoValue, Version |-> 0]

\* A configuration: nil, or the fields NewClient reads.
NilCfg == [IsNil |-> TRUE, TlsEnable |-> FALSE, CertFile |-> "", KeyFile |-> "",
           CaFile |-> "", Address |-> <<>>]
Cfgs == {NilCfg} \cup
        [IsNil : {FALSE}, TlsEnable : BOOLEAN, CertFile : {"", "cert"},
         KeyFile : {"", "key"}, CaFile : {"", "ca"}, Address : {<<>>, <<"ep">>}]

NoReq == [op |-> "none", path |-> <<>>, data |-> NoValue, cfg |-> NilCfg]
Req(op, path, data) == [op |-> op, path |-> path, data |-> data, cfg |-> NilCfg]

\* A result: the error, List's slice, Val's Node (none or one), NewClient's
\* handle (none or one, with the client it wraps), and whether the call
\* panicked instead of returning.
Result(err, l, data, client, panicked) ==
    [err |-> err, list |-> l, data |-> data, client |-> client, panicked |-> panicked]
NoRes == Result(NoErr, <<>>, <<>>, <<>>, FALSE)
ErrRes(err) == Result(err, <<>>, <<>>, <<>>, FALSE)

(***************************************************************************)
(* The cluster, and model.Member.                                          *)
(***************************************************************************)
MemberIds == 1..NumMembers

\* The endpoint member id advertises.
Url(id) == <<"ep", id>>

\* What MemberList answers: the members in the order of the roster, each
\* with its ID and the client URLs it advertises, none or one.
Rosters ==
    {r \in [MemberIds -> [ID : MemberIds, ClientURLs : {<<>>} \cup {<<Url(i)>> : i \in MemberIds}]] :
        \A i \in MemberIds : r[i].ID = i /\ r[i].ClientURLs \in {<<>>, <<Url(i)>>}}

\* A roster whose members all advertise an endpoint.
FullRoster == [i \in MemberIds |-> [ID |-> i, ClientURLs |-> <<Url(i)>>]]

ROLE_FOLLOWER == "follower"
ROLE_LEADER == "leader"
STATUS_HEALTHY == "healthy"
STATUS_UNHEALTHY == "unhealthy"

\* The size of the database of member id, as its status reports it.
DbSizeOf(id) == 100 * id

\* What a status probe answers: the leader the answering member knows, the
\* ID of the answering member in the header, and the size of its database.
StatusResp(by, ldr) == [Leader |-> ldr, HeaderMemberId |-> by, DbSize |-> DbSizeOf(by)]

\* What is remembered of one member of the roster: whether it was probed,
\* whether the probe was answered, by which member, and the leader that
\* member reported (by and ldr are 0 when there was no answer).
ProbeRec(id, probed, ok, by, ldr) ==
    [id |-> id, probed |-> probed, ok |-> ok, by |-> by, ldr |-> ldr]

\* The store a client is built against holds any of the keys, each written
\* once.
InitValues == {"1"}

Init ==
    /\ kv \in [StoreKeys -> {Absent} \cup [Value : InitValues, Version : {1}]]
    /\ roster \in Rosters
    /\ leader \in {0} \cup MemberIds
    /\ members = [p \in Procs |-> <<>>]
    /\ probes = [p \in Procs |-> <<>>]
    /\ pc = [p \in Procs |-> "idle"]
    /\ req = [p \in Procs |-> NoReq]
    /\ res = [p \in Procs |-> NoRes]
    /\ idx = [p \in Procs |-> 0]
    /\ ctxDone = [p \in Procs |-> FALSE]
    /\ scanned = [p \in Procs |-> {}]
    /\ sorted = [p \in Procs |-> <<>>]
    /\ fetches = [p \in Procs |-> <<>>]
    /\ expiredAt = [p \in Procs |-> -1]
    /\ connect = [p \in Procs |-> "none"]
    /\ atCall = [p \in Procs |-> Absent]
    /\ atStore = [p \in Procs |-> Absent]
    /\ sm = 0
    /\ calls = 0

\* No key of the store is malformed, and the cluster plays no part.
InitKV ==
    /\ Init
    /\ kv[KeyBad] = Absent
    /\ roster = FullRoster
    /\ leader = 1

(***************************************************************************)
(* The store client.                                                       *)
(***************************************************************************)
\* cli.Get(ctx, key): the key-value pairs of one key.
GetKvs(key) ==
    IF key \notin DOMAIN kv \/ kv[key].Version = 0 THEN <<>>
    ELSE <<[Key |-> key, Value |-> kv[key].Value]>>

\* cli.Get(ctx, path, WithPrefix(), WithKeysOnly()): the keys that begin
\* with path, without their values, in an order the caller cannot rely on.
PrefixKeys(path) == {k \in DOMAIN kv : kv[k].Version > 0 /\ HasPrefix(k, path)}
Orders(S) == {s \in [1..Cardinality(S) -> S] : \A i, j \in 1..Cardinality(S) : s[i] = s[j] => i = j}
KeysOnly(order) == [i \in 1..Len(order) |-> [Key |-> order[i], Value |-> NoValue]]

\* OpPut / cli.Put: the value is replaced and the version of the key grows.
PutKv(key, data) == [kv EXCEPT ![key] = [Value |-> data, Version |-> @.Version + 1]]
\* A delete of every key that begins with key.
DeletePrefix(key) == [k \in DOMAIN kv |-> IF HasPrefix(k, key) THEN Absent ELSE kv[k]]

\* A delete that removes nothing.
DeleteNothing(key) == kv

\* cli.Delete: the key is gone, and its version is 0 again.
DeleteKv(key) == [kv EXCEPT ![key] = Absent]

\* How a call to the store ends: answered, failed before the store acted, or
\* failed after the store acted (the answer was lost or came too late).
ReadOutcomes == {"ok", "fail"}
WriteOutcomes == {"ok", "fail", "lost"}

Start(p, r) ==
    /\ pc[p] = "idle"
    /\ calls < MaxCalls
    /\ calls' = calls + 1
    /\ req' = [req EXCEPT ![p] = r]
    /\ res' = [res EXCEPT ![p] = NoRes]
    /\ atCall' = [atCall EXCEPT ![p] = IF r.op = "Add" THEN kv[r.path] ELSE Absent]
    /\ atStore' = [atStore EXCEPT ![p] = Absent]

Return(p, r) ==
    /\ pc' = [pc EXCEPT ![p] = "idle"]
    /\ res' = [res EXCEPT ![p] = r]

(***************************************************************************)
(* Add (lines 167-191).                                                    *)
(***************************************************************************)
AlwaysPut(path) == TRUE

\* clientv3.Compare(clientv3.Version(path), "=", 0)
VersionIsZero(path) == kv[path].Version = 0

AddCall(p, path, data) ==
    /\ Start(p, Req("Add", path, data))
    /\ pc' = [pc EXCEPT ![p] = "Add_Commit"]
    /\ UNCHANGED <<memVars, kv, listVars, connect, sm>>

\* txn.If(...).Then(OpPut).Commit() and the two checks after it.
AddCommit(p) ==
    /\ pc[p] = "Add_Commit"
    /\ \E o \in WriteOutcomes :
        LET succeeded == VersionIsZero(req[p].path)
            applied == IF succeeded THEN PutKv(req[p].path, req[p].data) ELSE kv
        IN  /\ kv' = IF o = "fail" THEN kv ELSE applied
            /\ Return(p, IF o # "ok" THEN ErrRes(ErrStore)
                         ELSE IF ~succeeded THEN ErrRes(ERR_ADD_KEY)
                         ELSE NoRes)
    /\ atStore' = [atStore EXCEPT ![p] = kv[req[p].path]]
    /\ UNCHANGED <<memVars, req, listVars, connect, atCall, sm, calls>>

(***************************************************************************)
(* Put (lines 194-202) and Del (lines 205-213).                            *)
(***************************************************************************)
PutCall(p, path, data) ==
    /\ Start(p, Req("Put", path, data))
    /\ pc' = [pc EXCEPT ![p] = "Put_Put"]
    /\ UNCHANGED <<memVars, kv, listVars, connect, sm>>

PutPut(p) ==
    /\ pc[p] = "Put_Put"
    /\ \E o \in WriteOutcomes :
        /\ kv' = IF o = "fail" THEN kv ELSE PutKv(req[p].path, req[p].data)
        /\ Return(p, IF o # "ok" THEN ErrRes(ErrStore) ELSE NoRes)
    /\ UNCHANGED <<memVars, req, listVars, hist, sm, calls>>

DelCall(p, path) ==
    /\ Start(p, Req("Del", path, NoValue))
    /\ pc' = [pc EXCEPT ![p] = "Del_Delete"]
    /\ UNCHANGED <<memVars, kv, listVars, connect, sm>>

DelDelete(p) ==
    /\ pc[p] = "Del_Delete"
    /\ \E o \in WriteOutcomes :
        /\ kv' = IF o = "fail" THEN kv ELSE DeleteKv(req[p].path)
        /\ Return(p, IF o # "ok" THEN ErrRes(ErrStore) ELSE NoRes)
    /\ atStore' = [atStore EXCEPT ![p] = kv[req[p].path]]
    /\ UNCHANGED <<memVars, req, listVars, connect, atCall, sm, calls>>

(***************************************************************************)
(* Val (lines 146-164).                                                    *)
(***************************************************************************)
NeverEmpty(kvs) == FALSE

\* len(resp.Kvs) == 0
KvsEmpty(kvs) == Len(kvs) = 0

\* What Val returns once cli.Get has answered with kvs.  data = list[0]
\* panics (index out of range) when the conversion gave no Node.
ValResult(path, kvs) ==
    IF KvsEmpty(kvs) THEN ErrRes(ERR_KEY_NOT_FOUND)
    ELSE LET c == ConvertToPath(path, kvs)
         IN  IF c.err # NoErr THEN ErrRes(c.err)
             ELSE IF Len(c.list) = 0 THEN Result(NoErr, <<>>, <<>>, <<>>, TRUE)
             ELSE Result(NoErr, <<>>, <<c.list[1]>>, <<>>, FALSE)

ValCall(p, path) ==
    /\ Start(p, Req("Val", path, NoValue))
    /\ pc' = [pc EXCEPT ![p] = "Val_Get"]
    /\ UNCHANGED <<memVars, kv, listVars, connect, sm>>

ValGet(p) ==
    /\ pc[p] = "Val_Get"
    /\ \E o \in ReadOutcomes :
        Return(p, IF o # "ok" THEN ErrRes(ErrStore) ELSE ValResult(req[p].path, GetKvs(req[p].path)))
    /\ atStore' = [atStore EXCEPT ![p] = kv[req[p].path]]
    /\ UNCHANGED <<memVars, kv, req, listVars, connect, atCall, sm, calls>>

(***************************************************************************)
(* List (lines 109-143).  list and err are the named results: res[p].      *)
(***************************************************************************)
\* A call under ctx is answered only while the deadline has not passed.
IgnoresCtx(done, o) == o = "ok"

CtxGetOk(done, o) == ~done /\ o = "ok"

CtxErr(done) == IF done THEN ErrDeadline ELSE ErrStore

BreakLoop(i, n) == n + 1

\* The loop position after a follow-up fetch failed: log and continue.
AfterFetchError(i, n) == i + 1

IgnoresConvErr(convErr) == NoErr

\* The named result err after list, err = sdk.ConvertToPath(...) of line
\* 123; the loop declares its own err (rv, err := of line 132), so this
\* value is the one List returns.
ErrOfConvert(convErr) == convErr

\* v.Value = string(rv.Kvs[0].Value), when len(rv.Kvs) > 0
WithValue(l, i, rv) ==
    IF Len(rv) > 0 THEN [l EXCEPT ![i].Value = rv[1].Value] ELSE l

ListCall(p, path) ==
    /\ Start(p, Req("List", path, NoValue))
    /\ pc' = [pc EXCEPT ![p] = "List_Get"]
    /\ idx' = [idx EXCEPT ![p] = 0]
    /\ ctxDone' = [ctxDone EXCEPT ![p] = FALSE]
    /\ scanned' = [scanned EXCEPT ![p] = {}]
    /\ sorted' = [sorted EXCEPT ![p] = <<>>]
    /\ fetches' = [fetches EXCEPT ![p] = <<>>]
    /\ expiredAt' = [expiredAt EXCEPT ![p] = -1]
    /\ UNCHANGED <<memVars, kv, connect, sm>>

\* The deadline of ctx passes while List runs.
CtxExpire(p) ==
    /\ pc[p] \in {"List_Get", "List_Fetch"}
    /\ ~ctxDone[p]
    /\ ctxDone' = [ctxDone EXCEPT ![p] = TRUE]
    /\ expiredAt' = [expiredAt EXCEPT ![p] = idx[p]]
    /\ UNCHANGED <<memVars, kv, pc, req, res, idx, scanned, sorted, fetches, hist, sm, calls>>

\* The prefix scan, the conversion and the sort (lines 114-128).
ListGet(p) ==
    /\ pc[p] = "List_Get"
    /\ \E o \in ReadOutcomes :
        IF ~CtxGetOk(ctxDone[p], o)
        THEN /\ Return(p, ErrRes(CtxErr(ctxDone[p])))
             /\ UNCHANGED <<idx, scanned, sorted>>
        ELSE \E order \in Orders(PrefixKeys(req[p].path)) :
            IF Len(order) = 0
            THEN /\ Return(p, NoRes)
                 /\ UNCHANGED <<idx, scanned, sorted>>
            ELSE LET c == ConvertToPath(req[p].path, KeysOnly(order))
                     l == SortByPath(c.list)
                 IN  /\ res' = [res EXCEPT ![p] = Result(ErrOfConvert(c.err), l, <<>>, <<>>, FALSE)]
                     /\ pc' = [pc EXCEPT ![p] = "List_Fetch"]
                     /\ idx' = [idx EXCEPT ![p] = 1]
                     /\ scanned' = [scanned EXCEPT ![p] = PrefixKeys(req[p].path)]
                     /\ sorted' = [sorted EXCEPT ![p] = l]
    /\ UNCHANGED <<memVars, kv, req, ctxDone, fetches, expiredAt, hist, sm, calls>>

\* One turn of the follow-up loop (lines 131-140).
ListFetch(p) ==
    /\ pc[p] = "List_Fetch"
    /\ idx[p] <= Len(res[p].list)
    /\ \E o \in ReadOutcomes :
        LET i == idx[p]
            l == res[p].list
        IN  IF ~CtxGetOk(ctxDone[p], o)
            THEN /\ idx' = [idx EXCEPT ![p] = AfterFetchError(i, Len(l))]
                 /\ fetches' = [fetches EXCEPT ![p] = Append(@, "err")]
                 /\ UNCHANGED res
            ELSE /\ idx' = [idx EXCEPT ![p] = i + 1]
                 /\ fetches' = [fetches EXCEPT ![p] = Append(@, "ok")]
                 /\ res' = [res EXCEPT ![p].list = WithValue(l, i, GetKvs(l[i].Path))]
    /\ UNCHANGED <<memVars, kv, pc, req, ctxDone, scanned, sorted, expiredAt, hist, sm, calls>>

ListReturn(p) ==
    /\ pc[p] = "List_Fetch"
    /\ idx[p] > Len(res[p].list)
    /\ pc' = [pc EXCEPT ![p] = "idle"]
    /\ UNCHANGED <<memVars, kv, req, res, listVars, hist, sm, calls>>

(***************************************************************************)
(* NewClient (lines 29-106).                                               *)
(***************************************************************************)
NoValidation(cfg) == NoErr

\* The three checks of lines 34-45.
Validate(cfg) ==
    IF cfg.IsNil THEN ERR_CONFIG_ISNIL
    ELSE IF cfg.TlsEnable /\ (cfg.CertFile = "" \/ cfg.KeyFile = "" \/ cfg.CaFile = "")
    THEN ERR_TLS_CONFIG_ISNIL
    ELSE IF Len(cfg.Address) = 0 THEN ERR_ETCD_ADDRESS_EMPTY
    ELSE NoErr

\* clientv3.New: a client and no error, or no client and an error.
New(connectOk) ==
    IF connectOk THEN [cli |-> "conn", err |-> NoErr]
    ELSE [cli |-> "nil", err |-> ErrConnect]

\* &EtcdV3Sdk{cli: cli}
Handle(cli) == <<[cli |-> cli]>>

\* The named result err after cli, err = clientv3.New(...) of line 82: the
\* err assigned there is the one declared by cert, err := of line 68 in the
\* block of the if, so the named result keeps its value, nil.
ErrAfterTlsNew(newErr) == NoErr

\* The named result err after cli, err = clientv3.New(...) of line 90.
ErrAfterPlainNew(newErr) == newErr

\* The named results of NewClient, and how its connect step ended.
NewClientResult(cfg, keyPairOk, connectOk) ==
    LET n == New(connectOk)
        how == IF connectOk THEN "ok" ELSE "failed"
        err == IF cfg.TlsEnable THEN ErrAfterTlsNew(n.err) ELSE ErrAfterPlainNew(n.err)
    IN  IF Validate(cfg) # NoErr THEN [res |-> ErrRes(Validate(cfg)), connect |-> "none"]
        ELSE IF cfg.TlsEnable /\ ~keyPairOk
        THEN [res |-> ErrRes(ErrKeyPair), connect |-> "none"]
        ELSE IF err # NoErr THEN [res |-> ErrRes(err), connect |-> how]
        ELSE [res |-> Result(NoErr, <<>>, <<>>, Handle(n.cli), FALSE), connect |-> how]

NewClientCall(p, cfg) ==
    /\ Start(p, [op |-> "NewClient", path |-> <<>>, data |-> NoValue, cfg |-> cfg])
    /\ pc' = [pc EXCEPT ![p] = "NC_Lock"]
    /\ connect' = [connect EXCEPT ![p] = "none"]
    /\ UNCHANGED <<memVars, kv, listVars, sm>>

MutexIgnored(m) == TRUE

\* Whether sm.Lock() returns: the mutex m is held by no caller.
MutexFree(m) == m = 0

\* sm.Lock()
NewClientLock(p) ==
    /\ pc[p] = "NC_Lock"
    /\ MutexFree(sm)
    /\ sm' = p
    /\ pc' = [pc EXCEPT ![p] = "NC_Body"]
    /\ UNCHANGED <<memVars, kv, req, res, listVars, hist, calls>>

\* Lines 34-105, with the mutex held.
NewClientBody(p) ==
    /\ pc[p] = "NC_Body"
    /\ \E keyPairOk \in BOOLEAN, connectOk \in BOOLEAN :
        LET r == NewClientResult(req[p].cfg, keyPairOk, connectOk)
        IN  /\ res' = [res EXCEPT ![p] = r.res]
            /\ connect' = [connect EXCEPT ![p] = r.connect]
    /\ pc' = [pc EXCEPT ![p] = "NC_Unlock"]
    /\ UNCHANGED <<memVars, kv, req, listVars, atCall, atStore, sm, calls>>

\* The deferred sm.Unlock(), and the return.
NewClientUnlock(p) ==
    /\ pc[p] = "NC_Unlock"
    /\ sm' = 0
    /\ pc' = [pc EXCEPT ![p] = "idle"]
    /\ UNCHANGED <<memVars, kv, req, res, listVars, hist, calls>>

(***************************************************************************)
(* Members (lines 216-248).  members and err are the named results.        *)
(***************************************************************************)
AnyMember(member) == TRUE

\* len(member.ClientURLs) > 0
HasClientURLs(member) == Len(member.ClientURLs) > 0

\* fmt.Sprint(member.ID)
Sprint(id) == ToString(id)

\* The Member as it is before the probe (lines 225-232); Name and PeerURLs
\* are copied from the roster and left out.
NewMember(member) ==
    [ID |-> Sprint(member.ID), ClientURLs |-> member.ClientURLs,
     Role |-> ROLE_FOLLOWER, Status |-> STATUS_UNHEALTHY, DbSize |-> 0]

LeaderAlways(member, resp) == TRUE

\* resp.Leader == resp.Header.MemberId
LeaderIsResponder(member, resp) == resp.Leader = resp.HeaderMemberId

\* Lines 237-243: what the probe's answer does to m.
AfterStatus(m, member, ok, resp) ==
    IF ok
    THEN [m EXCEPT !.Status = STATUS_HEALTHY,
                   !.DbSize = resp.DbSize,
                   !.Role = IF LeaderIsResponder(member, resp) THEN ROLE_LEADER ELSE @]
    ELSE m

SharedDeadline(firstDone, o) == ~firstDone /\ o = "ok"

\* Whether sdk.cli.Status(ctx, ...) is answered: its ctx is the one made for
\* this probe at line 233, which has not expired when the probe starts,
\* whatever became of the ctx of line 217; o says whether the endpoint
\* answers within the probe's own deadline.
StatusOk(firstDone, o) == o = "ok"

MembersCall(p) ==
    /\ Start(p, Req("Members", <<>>, NoValue))
    /\ pc' = [pc EXCEPT ![p] = "Mem_List"]
    /\ idx' = [idx EXCEPT ![p] = 0]
    /\ ctxDone' = [ctxDone EXCEPT ![p] = FALSE]
    /\ members' = [members EXCEPT ![p] = <<>>]
    /\ probes' = [probes EXCEPT ![p] = <<>>]
    /\ expiredAt' = [expiredAt EXCEPT ![p] = -1]
    /\ UNCHANGED <<kv, scanned, sorted, fetches, connect, sm, roster, leader>>

\* The deadline of the ctx of line 217 passes while Members runs.
MembersCtxExpire(p) ==
    /\ pc[p] \in {"Mem_List", "Mem_Probe"}
    /\ ~ctxDone[p]
    /\ ctxDone' = [ctxDone EXCEPT ![p] = TRUE]
    /\ expiredAt' = [expiredAt EXCEPT ![p] = idx[p]]
    /\ UNCHANGED <<kv, pc, req, res, idx, scanned, sorted, fetches, hist, sm,
                   calls, memVars>>

\* sdk.cli.MemberList(ctx) and the return of lines 220-222.
MembersList(p) ==
    /\ pc[p] = "Mem_List"
    /\ \E o \in ReadOutcomes :
        IF ~CtxGetOk(ctxDone[p], o)
        THEN /\ Return(p, ErrRes(CtxErr(ctxDone[p])))
             /\ UNCHANGED idx
        ELSE /\ pc' = [pc EXCEPT ![p] = "Mem_Probe"]
             /\ idx' = [idx EXCEPT ![p] = 1]
             /\ UNCHANGED res
    /\ UNCHANGED <<kv, req, ctxDone, scanned, sorted, fetches, expiredAt, hist,
                   sm, calls, memVars>>

\* One turn of the loop over resp.Members (lines 223-246).
MembersProbe(p) ==
    /\ pc[p] = "Mem_Probe"
    /\ idx[p] <= Len(roster)
    /\ LET member == roster[idx[p]]
       IN  IF ~HasClientURLs(member)
           THEN /\ probes' = [probes EXCEPT ![p] = Append(@, ProbeRec(member.ID, FALSE, FALSE, 0, 0))]
                /\ UNCHANGED members
           ELSE \E o \in ReadOutcomes, by \in MemberIds :
                /\ o = "fail" => by = 1    \* no answer: by plays no part
                /\ LET ok   == StatusOk(ctxDone[p], o)
                       resp == StatusResp(by, leader)
                       m    == AfterStatus(NewMember(member), member, ok, resp)
                   IN  /\ members' = [members EXCEPT ![p] = Append(@, m)]
                       /\ probes' = [probes EXCEPT ![p] = Append(@,
                              IF o = "ok" THEN ProbeRec(member.ID, TRUE, TRUE, by, leader)
                              ELSE ProbeRec(member.ID, TRUE, FALSE, 0, 0))]
    /\ idx' = [idx EXCEPT ![p] = @ + 1]
    /\ UNCHANGED <<kv, pc, req, res, ctxDone, scanned, sorted, fetches, expiredAt,
                   hist, sm, calls, roster, leader>>

MembersReturn(p) ==
    /\ pc[p] = "Mem_Probe"
    /\ idx[p] > Len(roster)
    /\ pc' = [pc EXCEPT ![p] = "idle"]
    /\ UNCHANGED <<kv, req, res, listVars, hist, sm, calls, memVars>>

\* The cluster elects another leader, or loses the one it has.
LeaderChange(l) ==
    /\ l # leader
    /\ leader' = l
    /\ UNCHANGED <<kv, pc, req, res, listVars, hist, sm, calls, roster, members, probes>>

(***************************************************************************)
(* The specifications.                                                     *)
(***************************************************************************)
\* The operations on the store.
NextKV ==
    \E p \in Procs :
        \/ \E path \in Keys, data \in Values : AddCall(p, path, data)
        \/ AddCommit(p)
        \/ \E path \in Keys, data \in Values : PutCall(p, path, data)
        \/ PutPut(p)
        \/ \E path \in Keys : DelCall(p, path)
        \/ DelDelete(p)
        \/ \E path \in Keys : ValCall(p, path)
        \/ ValGet(p)
        \/ \E path \in ListPaths : ListCall(p, path)
        \/ CtxExpire(p)
        \/ ListGet(p)
        \/ ListFetch(p)
        \/ ListReturn(p)

\* Construction.
NextNew ==
    \E p \in Procs :
        \/ \E cfg \in Cfgs : NewClientCall(p, cfg)
        \/ NewClientLock(p)
        \/ NewClientBody(p)
        \/ NewClientUnlock(p)

\* Add alone: the callers only add.
NextAdd ==
    \E p \in Procs :
        \/ \E path \in Keys, data \in Values : AddCall(p, path, data)
        \/ AddCommit(p)

\* The callers list the members of a cluster whose leader may change.
NextMem ==
    \/ \E p \in Procs :
        \/ MembersCall(p)
        \/ MembersCtxExpire(p)
        \/ MembersList(p)
        \/ MembersProbe(p)
        \/ MembersReturn(p)
    \/ \E l \in {0} \cup MemberIds : LeaderChange(l)

\* Del, Val and List: the callers delete and read, and write nothing.
NextDel ==
    \E p \in Procs :
        \/ \E path \in Keys : DelCall(p, path)
        \/ DelDelete(p)
        \/ \E path \in Keys : ValCall(p, path)
        \/ ValGet(p)
        \/ \E path \in ListPaths : ListCall(p, path)
        \/ CtxExpire(p)
        \/ ListGet(p)
        \/ ListFetch(p)
        \/ ListReturn(p)

\* List and Del.
NextList ==
    \E p \in Procs :
        \/ \E path \in ListPaths : ListCall(p, path)
        \/ CtxExpire(p)
        \/ ListGet(p)
        \/ ListFetch(p)
        \/ ListReturn(p)
        \/ \E path \in StoreKeys : DelCall(p, path)
        \/ DelDelete(p)

Next == NextKV \/ NextNew \/ NextMem

Spec == Init /\ [][Next]_vars

\* The callers use one handle: List, Val, Add, Put and Del.
SpecKV == InitKV /\ [][NextKV]_vars

\* The callers only add.
SpecAdd == InitKV /\ [][NextAdd]_vars

\* The callers only build clients; what the store holds plays no part.
InitNew == InitKV /\ kv = [k \in StoreKeys |-> Absent]
SpecNew == InitNew /\ [][NextNew]_vars

\* The callers delete and read; no caller writes a value.
SpecDel == InitKV /\ [][NextDel]_vars

\* The callers list and delete in a store that holds a malformed key.
InitBad ==
    /\ Init
    /\ kv[KeyBad] # Absent
    /\ roster = FullRoster
    /\ leader = 1
SpecBad == InitBad /\ [][NextList]_vars

\* The callers list the members of any cluster.
InitMem == Init /\ kv = [k \in StoreKeys |-> Absent]
SpecMem == InitMem /\ [][NextMem]_vars

\* Construction beside the use of handles, under a fair scheduler: a caller
\* that can take a step of NewClient takes it at some time.  A goroutine
\* that is runnable runs, and sync.Mutex hands the lock to a goroutine that
\* waits for it.
SpecLock ==
    /\ InitNew
    /\ [][NextKV \/ NextNew]_vars
    /\ \A p \in Procs :
        /\ WF_vars(NewClientLock(p))
        /\ WF_vars(NewClientBody(p))
        /\ WF_vars(NewClientUnlock(p))

(***************************************************************************)
(* Properties.                                                             *)
(***************************************************************************)
\* Caller p has made a call of op, and the call has returned.
Returned(p, op) == pc[p] = "idle" /\ req[p].op = op

\* The calls of Add on key that began while the key was absent and have
\* returned, and those among them that returned success.
Adders(key) ==
    {p \in Procs : Returned(p, "Add") /\ req[p].path = key /\ atCall[p].Version = 0}
Winners(key) == {p \in Adders(key) : res[p].err = NoErr}

\* C1, as claimed: of two or more calls of Add on a key that began while the
\* key was absent, at most one returns success, every other one returns
\* ERR_ADD_KEY, and the key holds the value of the one that succeeded.
C1_Original ==
    \A key \in Keys :
        Cardinality(Adders(key)) >= 2 =>
            /\ Cardinality(Winners(key)) <= 1
            /\ \A p \in Adders(key) \ Winners(key) : res[p].err = ERR_ADD_KEY
            /\ \A p \in Winners(key) : kv[key].Value = req[p].data

\* C1, amended: of the calls of Add on a key that began while the key was
\* absent, at most one returns success; every other one returns an error,
\* which is ERR_ADD_KEY when its commit found the key present and the error
\* of the store when its commit failed; and when one succeeded, its commit
\* found the key absent and the key holds its value.
C1_AtMostOneAddSucceeds ==
    \A key \in Keys :
        /\ Cardinality(Winners(key)) <= 1
        /\ \A p \in Adders(key) \ Winners(key) :
            /\ res[p].err \in {ERR_ADD_KEY, ErrStore}
            /\ res[p].err = ERR_ADD_KEY => atStore[p].Version > 0
        /\ \A p \in Winners(key) :
            /\ atStore[p].Version = 0
            /\ kv[key].Value = req[p].data

\* Two calls of Add with different values on one key, both begun while the
\* key was absent: one succeeded, the other returned ERR_ADD_KEY.
C1_Witness ==
    \E p, q \in Procs, key \in Keys :
        /\ p \in Winners(key)
        /\ q \in Adders(key)
        /\ res[q].err = ERR_ADD_KEY
        /\ req[p].data # req[q].data

\* The step in which the transaction of p's Add is committed while the key
\* exists.
CommitOnExisting(p) ==
    /\ pc[p] = "Add_Commit"
    /\ pc'[p] = "idle"
    /\ kv[req[p].path].Version > 0

\* C2, as claimed: an Add on a key that exists returns ERR_ADD_KEY and
\* leaves the store as it was.
C2_Original ==
    [][\A p \in Procs :
        CommitOnExisting(p) => (res'[p].err = ERR_ADD_KEY /\ kv' = kv)]_vars

\* C2, amended: an Add whose transaction reaches the store while the key
\* exists returns an error, ERR_ADD_KEY when the commit is answered and the
\* error of the store when the commit fails, and the store is left as it
\* was: the key keeps its value.
C2_AddNeverOverwrites ==
    [][\A p \in Procs :
        CommitOnExisting(p) =>
            (res'[p].err \in {ERR_ADD_KEY, ErrStore} /\ kv' = kv)]_vars

\* An Add of another value on a key that existed has returned ERR_ADD_KEY,
\* and the key holds what it held.
C2_Witness ==
    \E p \in Procs :
        /\ Returned(p, "Add")
        /\ atStore[p].Version > 0
        /\ req[p].data # atStore[p].Value
        /\ res[p].err = ERR_ADD_KEY
        /\ kv[req[p].path] = atStore[p]

\* C3: NewClient returns an error and no handle when its connect step
\* failed, and returns a handle with a nil error only when the connect step
\* succeeded and the handle wraps the client.
C3_AllOrNothing ==
    \A p \in Procs :
        Returned(p, "NewClient") =>
            /\ connect[p] = "failed" => (res[p].err # NoErr /\ res[p].client = <<>>)
            /\ (res[p].client # <<>> /\ res[p].err = NoErr) =>
                (connect[p] = "ok" /\ res[p].client[1].cli = "conn")

\* C4: a Val whose fetch is answered while the key is present returns,
\* without error, the one Node of the conversion: the key as path, not a
\* directory, with the value the store holds, the last one written.
C4_ValReturnsNode ==
    \A p \in Procs :
        (Returned(p, "Val") /\ atStore[p].Version > 0 /\ res[p].err # ErrStore) =>
            /\ ~res[p].panicked
            /\ res[p].err = NoErr
            /\ res[p].data = <<Node(req[p].path, atStore[p].Value, FALSE)>>

\* No Val returns a Node together with an error, and a Val that returns a
\* Node found the key present.
NodeXorError(p) ==
    /\ ~(res[p].data # <<>> /\ res[p].err # NoErr)
    /\ res[p].data # <<>> => atStore[p].Version > 0

\* C5, as claimed: a Val on a key that is absent at the time of the fetch
\* returns ERR_KEY_NOT_FOUND and no Node; no Val returns a Node for a
\* missing key, or a Node with an error.
C5_Original ==
    \A p \in Procs :
        Returned(p, "Val") =>
            /\ atStore[p].Version = 0 =>
                (res[p].err = ERR_KEY_NOT_FOUND /\ res[p].data = <<>>)
            /\ NodeXorError(p)

\* C5, amended: a Val on a key that is absent at the time of the fetch
\* returns no Node and an error, ERR_KEY_NOT_FOUND when the fetch is answered
\* and the error of the store when the fetch fails; no Val returns a Node for
\* a missing key, or a Node with an error.
C5_MissingKeyNotFound ==
    \A p \in Procs :
        Returned(p, "Val") =>
            /\ atStore[p].Version = 0 =>
                /\ ~res[p].panicked
                /\ res[p].data = <<>>
                /\ res[p].err \in {ERR_KEY_NOT_FOUND, ErrStore}
            /\ NodeXorError(p)

\* A Val on an absent key has returned ERR_KEY_NOT_FOUND.
C5_Witness ==
    \E p \in Procs :
        /\ Returned(p, "Val")
        /\ atStore[p].Version = 0
        /\ res[p].err = ERR_KEY_NOT_FOUND
        /\ res[p].data = <<>>

\* The List of p has scanned, converted and sorted a scan that was not empty.
Scanned(p) ==
    \/ pc[p] = "List_Fetch"
    \/ Returned(p, "List") /\ scanned[p] # {}

\* A path as a directory: with the separator at its end.
DirOf(path) == IF path # <<>> /\ path[Len(path)] = Sep THEN path ELSE path \o <<Sep>>

\* The keys of S below path, and the first segment of such a key after path.
Below(path, S) == {k \in S : HasPrefix(k, DirOf(path)) /\ Len(k) > Len(DirOf(path))}
FirstSegment(path, k) ==
    LET rest == SubSeq(k, Len(DirOf(path)) + 1, Len(k))
    IN  IF IndexSep(rest) = 0 THEN rest ELSE SubSeq(rest, 1, IndexSep(rest) - 1)

\* child is exactly one segment deeper than path.
OneDeeper(path, child) ==
    /\ child \in Below(path, {child})
    /\ FirstSegment(path, child) # <<>>
    /\ child = DirOf(path) \o FirstSegment(path, child)

\* C6: the conversion of the keys S scanned under P gives Nodes whose paths
\* are pairwise distinct, each one segment deeper than P, one for each
\* distinct first segment after P in S, and none for a key equal to P.
C6_ConvertOneLevel ==
    \A p \in Procs :
        Scanned(p) =>
            LET P == req[p].path
                l == sorted[p]
            IN  /\ \A i, j \in 1..Len(l) : l[i].Path = l[j].Path => i = j
                /\ \A i \in 1..Len(l) : OneDeeper(P, l[i].Path)
                /\ Paths(l) = {DirOf(P) \o FirstSegment(P, k) : k \in Below(P, scanned[p])}
                /\ P \notin Paths(l)

\* C7: the Nodes of List are in ascending byte-wise order of path, after
\* the sort and when List returns.
C7_ListSorted ==
    \A p \in Procs :
        (Scanned(p) \/ Returned(p, "List")) =>
            \A i, j \in 1..Len(res[p].list) :
                i < j => ~StrLess(res[p].list[j].Path, res[p].list[i].Path)

\* A List has returned three Nodes.
C7_Witness ==
    \E p \in Procs : Returned(p, "List") /\ Len(res[p].list) >= 3

\* The paths and directory flags of a slice of Nodes.
Shape(l) == [i \in 1..Len(l) |-> <<l[i].Path, l[i].IsDir>>]

\* C8: whatever follow-up fetches fail, List returns without error the
\* Nodes, by path and directory flag, that it had after the sort; every
\* Node was fetched, and a Node whose fetch failed has an empty value.
C8_FetchFailuresTolerated ==
    \A p \in Procs :
        (Returned(p, "List") /\ scanned[p] # {}) =>
            /\ res[p].err = NoErr
            /\ Shape(res[p].list) = Shape(sorted[p])
            /\ Len(fetches[p]) = Len(res[p].list)
            /\ \A i \in 1..Len(res[p].list) :
                fetches[p][i] = "err" => res[p].list[i].Value = NoValue

\* A List has returned two Nodes or more: the fetch of the first failed
\* before the deadline and its value is empty, the fetch of the second gave
\* a value.
C8_Witness ==
    \E p \in Procs :
        /\ Returned(p, "List")
        /\ Len(res[p].list) >= 2
        /\ expiredAt[p] = -1
        /\ fetches[p][1] = "err"
        /\ res[p].list[1].Value = NoValue
        /\ fetches[p][2] = "ok"
        /\ res[p].list[2].Value # NoValue

\* C9, as claimed: a List whose deadline passed before it completed, during
\* the scan or while the follow-up loop still had a Node to fetch, returns
\* the deadline error.
C9_Original ==
    \A p \in Procs :
        (Returned(p, "List") /\ expiredAt[p] \in 0..Len(res[p].list)) =>
            res[p].err = ErrDeadline

\* C9, amended: List runs under one deadline; when it passes before the
\* prefix scan is answered, List returns the deadline error and no Node;
\* when it passes during the follow-up loop, every fetch from then on fails
\* and is skipped, and List returns its Nodes without error, those not yet
\* fetched with an empty value.
C9_DeadlineOfList ==
    \A p \in Procs :
        Returned(p, "List") =>
            /\ expiredAt[p] = 0 => (res[p].err = ErrDeadline /\ res[p].list = <<>>)
            /\ expiredAt[p] >= 1 =>
                /\ res[p].err = NoErr
                /\ Shape(res[p].list) = Shape(sorted[p])
                /\ \A i \in expiredAt[p]..Len(res[p].list) :
                    fetches[p][i] = "err" /\ res[p].list[i].Value = NoValue

\* A List has returned two Nodes without error though its deadline passed
\* between the two fetches: the first has its value, the second has none.
C9_Witness ==
    \E p \in Procs :
        /\ Returned(p, "List")
        /\ expiredAt[p] = 2
        /\ Len(res[p].list) >= 2
        /\ res[p].list[1].Value # NoValue
        /\ res[p].list[2].Value = NoValue
        /\ res[p].err = NoErr

\* C10: in what List returns, a directory has an empty value, even when
\* its path is a key of the store; a Node that is no directory has a
\* scanned key as its path and, when its fetch succeeded and no other call
\* was made, the value the store holds for that key.
C10_OnlyLeavesFetched ==
    \A p \in Procs :
        Returned(p, "List") =>
            \A i \in 1..Len(res[p].list) :
                LET n == res[p].list[i]
                IN  /\ n.IsDir => n.Value = NoValue
                    /\ ~n.IsDir => n.Path \in scanned[p]
                    /\ (~n.IsDir /\ fetches[p][i] = "ok" /\ calls = 1) =>
                        n.Value = kv[n.Path].Value

\* Caller p takes the step in which its delete reaches the store and Del
\* returns.
DelStep(p) == pc[p] = "Del_Delete" /\ pc'[p] = "idle"

\* C11 as it is stated: Del of a key that the store does not hold, whether
\* or not keys lie under it, returns no error and leaves the store as it was.
C11_Original ==
    [][\A p \in Procs :
        (DelStep(p) /\ kv[req[p].path].Version = 0)
            => (res'[p].err = NoErr /\ kv' = kv)]_vars

\* C11: Del of a key that the store does not hold, whether or not keys lie
\* under it, leaves the store as it was, and returns no error or, when the
\* call of the store failed, the error of the store.
C11_DelOfAbsentKey ==
    [][\A p \in Procs :
        (DelStep(p) /\ kv[req[p].path].Version = 0)
            => (res'[p].err \in {NoErr, ErrStore} /\ kv' = kv)]_vars

\* Del of "/a/c" has returned no error; the store did not hold "/a/c" and
\* holds "/a/c/d".
C11_Witness ==
    \E p \in Procs :
        /\ Returned(p, "Del")
        /\ req[p].path = KeyAC
        /\ atStore[p].Version = 0
        /\ res[p].err = NoErr
        /\ kv[KeyACD].Version > 0

\* Caller p has deleted a key with success.
Deleted(p) == Returned(p, "Del") /\ res[p].err = NoErr

\* Caller q takes the step in which its fetch reaches the store and Val
\* returns, or its scan reaches the store.
ValStep(q) == pc[q] = "Val_Get" /\ pc'[q] = "idle"
ScanStep(q) == pc[q] = "List_Get" /\ pc'[q] # "List_Get"

\* The keys the store holds strictly under path.
HeldBelow(path) == {k \in Below(path, DOMAIN kv) : kv[k].Version > 0}

\* Every key but the one Del names keeps what it holds.
DelFrame(p) == DelStep(p) => \A k \in DOMAIN kv \ {req[p].path} : kv'[k] = kv[k]

\* C12 as it is stated: Del changes no key but the one it names; once Del
\* of K has succeeded, Val of K returns ERR_KEY_NOT_FOUND and List of K
\* returns the Nodes of the keys under K.
C12_Original ==
    [][\A p, q \in Procs :
        /\ DelFrame(p)
        /\ (Deleted(p) /\ req[q].path = req[p].path /\ ValStep(q))
            => res'[q].err = ERR_KEY_NOT_FOUND
        /\ (Deleted(p) /\ req[q].path = req[p].path /\ ScanStep(q))
            => (res'[q].err = NoErr /\ Paths(res'[q].list) = HeldBelow(req[p].path))]_vars

\* C12: Del changes no key but the one it names; once Del of K has
\* succeeded and while no caller writes K, Val of K returns
\* ERR_KEY_NOT_FOUND when its fetch is answered and the error of the store
\* when it is not, and List of K, when its scan is answered, goes on with
\* the Nodes of the keys under K.
C12_DelOnlyTheKey ==
    [][\A p, q \in Procs :
        /\ DelFrame(p)
        /\ (Deleted(p) /\ req[q].path = req[p].path /\ ValStep(q))
            => (res'[q].err \in {ERR_KEY_NOT_FOUND, ErrStore} /\ ~res'[q].panicked)
        /\ (Deleted(p) /\ req[q].path = req[p].path /\ ScanStep(q))
            => \/ res'[q].err \in {ErrStore, ErrDeadline}
               \/ /\ res'[q].err = NoErr
                  /\ Paths(res'[q].list) = HeldBelow(req[p].path)]_vars

\* Del of "/a/c", which the store held, has succeeded; Val of "/a/c" has
\* then returned ERR_KEY_NOT_FOUND, and the store still holds "/a/c/d".
C12_Witness ==
    \E p, q \in Procs :
        /\ Deleted(p)
        /\ req[p].path = KeyAC
        /\ atStore[p].Version > 0
        /\ Returned(q, "Val")
        /\ req[q].path = KeyAC
        /\ res[q].err = ERR_KEY_NOT_FOUND
        /\ kv[KeyACD].Version > 0

\* Members has returned to caller p after its roster query was answered.
Listed(p) == Returned(p, "Members") /\ Len(probes[p]) = Len(roster)

\* What is remembered of the members of the roster that were probed, in
\* the order of the roster: the j-th is about members[p][j].
RECURSIVE Probed(_)
Probed(recs) ==
    IF recs = <<>> THEN <<>>
    ELSE IF Head(recs).probed THEN <<Head(recs)>> \o Probed(Tail(recs))
    ELSE Probed(Tail(recs))

\* C13 as it is stated: a Member is healthy exactly when its probe was
\* answered; it is leader exactly when its probe was answered and reported
\* as leader the ID the roster gives for the member; a healthy Member that
\* is no leader is a follower with the database size of the probe.
C13_Original ==
    \A p \in Procs :
        Listed(p) =>
            /\ Len(members[p]) = Len(Probed(probes[p]))
            /\ \A j \in 1..Len(members[p]) :
                LET m == members[p][j]
                    r == Probed(probes[p])[j]
                IN  /\ m.Status = STATUS_HEALTHY <=> r.ok
                    /\ m.Role = ROLE_LEADER <=> (r.ok /\ r.ldr = r.id)
                    /\ (r.ok /\ r.ldr # r.id) =>
                           (m.Role = ROLE_FOLLOWER /\ m.DbSize = DbSizeOf(r.by))

\* The Member that the answer remembered in r makes of the member of the
\* roster, by that answer alone.
ByOwnProbe(m, r) ==
    IF r.ok
    THEN /\ m.Status = STATUS_HEALTHY
         /\ m.DbSize = DbSizeOf(r.by)
         /\ m.Role = IF r.ldr = r.by THEN ROLE_LEADER ELSE ROLE_FOLLOWER
    ELSE /\ m.Status = STATUS_UNHEALTHY
         /\ m.DbSize = 0
         /\ m.Role = ROLE_FOLLOWER

\* C14: when the roster query was answered, Members returns no error
\* whichever probes fail; a member whose probe failed is unhealthy, a
\* follower, with database size 0; every other member is what its own
\* answer makes it, whatever happened to the other probes and to the
\* deadline of the roster query.
C14_ProbesIndependent ==
    \A p \in Procs :
        Listed(p) =>
            /\ res[p].err = NoErr
            /\ Len(members[p]) = Len(Probed(probes[p]))
            /\ \A j \in 1..Len(members[p]) :
                ByOwnProbe(members[p][j], Probed(probes[p])[j])

\* Members has returned no error; the deadline of the roster query passed
\* before the first probe, the first probe failed and the second was
\* answered and made its member healthy.
C14_Witness ==
    \E p \in Procs :
        /\ Listed(p)
        /\ res[p].err = NoErr
        /\ expiredAt[p] = 1
        /\ Len(members[p]) = 2
        /\ ~Probed(probes[p])[1].ok
        /\ members[p][1].Status = STATUS_UNHEALTHY
        /\ Probed(probes[p])[2].ok
        /\ members[p][2].Status = STATUS_HEALTHY

\* The members of the roster that advertise a client URL, in the order of
\* the roster.
RECURSIVE Advertisers(_)
Advertisers(r) ==
    IF r = <<>> THEN <<>>
    ELSE IF Len(Head(r).ClientURLs) > 0 THEN <<Head(r)>> \o Advertisers(Tail(r))
    ELSE Advertisers(Tail(r))

\* The roster as a sequence.
RosterSeq == [i \in 1..Len(roster) |-> roster[i]]

\* C15: when the roster query was answered, the list Members returns holds
\* the members of the roster that advertise a client URL, each once and in
\* the order of the roster; a member that advertises none is not in the
\* list and was not probed.
C15_ExactlyTheAdvertisers ==
    \A p \in Procs :
        Listed(p) =>
            /\ Len(members[p]) = Len(Advertisers(RosterSeq))
            /\ \A j \in 1..Len(members[p]) :
                /\ members[p][j].ID = ToString(Advertisers(RosterSeq)[j].ID)
                /\ members[p][j].ClientURLs = Advertisers(RosterSeq)[j].ClientURLs
            /\ \A i \in 1..Len(roster) :
                probes[p][i].probed <=> Len(roster[i].ClientURLs) > 0

\* Members has returned the second member of a roster whose first member
\* advertises no client URL.
C15_Witness ==
    \E p \in Procs :
        /\ Listed(p)
        /\ roster[1].ClientURLs = <<>>
        /\ Len(members[p]) = 1
        /\ members[p][1].ID = "2"
        /\ ~probes[p][1].probed

\* The positions of the leaders in the list returned to p.
Leaders(p) == {j \in 1..Len(members[p]) : members[p][j].Role = ROLE_LEADER}

\* Every endpoint that answered p was answered by the member that
\* advertises it.
OwnEndpoints(p) == \A i \in 1..Len(probes[p]) : probes[p][i].ok => probes[p][i].by = probes[p][i].id

\* The answers p got name the same leader.
OneLeaderSeen(p) ==
    \A i, j \in 1..Len(probes[p]) :
        (probes[p][i].ok /\ probes[p][j].ok) => probes[p][i].ldr = probes[p][j].ldr

\* C19 as it is stated, for a cluster in which every endpoint is answered
\* by the member that advertises it: the list Members returns holds at most
\* one leader, whether or not the leader changes between the probes.
C19_Original ==
    \A p \in Procs :
        (Listed(p) /\ OwnEndpoints(p)) => Cardinality(Leaders(p)) <= 1

\* C19: the list Members returns holds at most one leader when the answers
\* to its probes name the same leader and every endpoint is answered by the
\* member that advertises it; every leader of the list was named leader by
\* the answer to its own probe.
C19_AtMostOneLeader ==
    \A p \in Procs :
        Listed(p) =>
            /\ (OwnEndpoints(p) /\ OneLeaderSeen(p)) => Cardinality(Leaders(p)) <= 1
            /\ \A j \in Leaders(p) :
                Probed(probes[p])[j].ok /\ Probed(probes[p])[j].ldr = Probed(probes[p])[j].by

\* Members has returned two healthy members, one of them the leader; both
\* answers named the same leader.
C19_Witness ==
    \E p \in Procs :
        /\ Listed(p)
        /\ OwnEndpoints(p)
        /\ OneLeaderSeen(p)
        /\ Len(members[p]) = 2
        /\ \A j \in 1..2 : members[p][j].Status = STATUS_HEALTHY
        /\ Cardinality(Leaders(p)) = 1

\* Caller p holds the construction lock: it is between sm.Lock() and the
\* deferred sm.Unlock().
Holds(p) == pc[p] \in {"NC_Body", "NC_Unlock"}

\* Caller p is in NewClient.
InNewClient(p) == pc[p] \in {"NC_Lock", "NC_Body", "NC_Unlock"}

\* C16: at most one caller holds the construction lock, and the mutex names
\* it; the lock is free again when NewClient has returned, whatever it
\* returned; a caller that waits for the lock gets it; a step of a method
\* of a handle neither changes the mutex nor waits for it.
C16_ConstructionSerialized ==
    /\ [](\A p, q \in Procs : (Holds(p) /\ Holds(q)) => p = q)
    /\ [](\A p \in Procs : Holds(p) <=> sm = p)
    /\ \A p \in Procs : (pc[p] = "NC_Lock") ~> Holds(p)
    /\ [][\A p \in Procs :
            (~InNewClient(p) /\ pc'[p] # pc[p] /\ ~InNewClient(p)') => sm' = sm]_vars
    /\ [](\A p \in Procs :
            (pc[p] = "Val_Get" => ENABLED ValGet(p)) /\ (pc[p] = "Put_Put" => ENABLED PutPut(p)))

\* One caller holds the construction lock and the other waits for it.
C16_Witness ==
    \E p, q \in Procs :
        /\ pc[p] = "NC_Body"
        /\ sm = p
        /\ pc[q] = "NC_Lock"

\* The body of NewClient has run for caller p.
Built(p) == req[p].op = "NewClient" /\ pc[p] \in {"NC_Unlock", "idle"}

\* With TLS enabled, the certificate, the key or the CA is empty.
TlsIncomplete(cfg) ==
    cfg.TlsEnable /\ (cfg.CertFile = "" \/ cfg.KeyFile = "" \/ cfg.CaFile = "")

\* NewClient has returned err to p, no handle, and has not tried to connect.
FailsWith(p, err) ==
    /\ res[p].err = err
    /\ res[p].client = <<>>
    /\ connect[p] = "none"

\* C17 as it is stated: a nil config fails with ERR_CONFIG_ISNIL, a config
\* with TLS enabled and the certificate, the key or the CA empty with
\* ERR_TLS_CONFIG_ISNIL, a config with no address with
\* ERR_ETCD_ADDRESS_EMPTY, each without handle and without connect; with
\* TLS disabled, empty certificate, key and CA make no failure.
C17_Original ==
    \A p \in Procs :
        Built(p) =>
            LET cfg == req[p].cfg
            IN  /\ cfg.IsNil => FailsWith(p, ERR_CONFIG_ISNIL)
                /\ (~cfg.IsNil /\ TlsIncomplete(cfg)) => FailsWith(p, ERR_TLS_CONFIG_ISNIL)
                /\ (~cfg.IsNil /\ Len(cfg.Address) = 0) => FailsWith(p, ERR_ETCD_ADDRESS_EMPTY)
                /\ (~cfg.IsNil /\ ~cfg.TlsEnable /\ Len(cfg.Address) > 0)
                       => res[p].err \in {NoErr, ErrConnect}

\* C17: a nil config fails with ERR_CONFIG_ISNIL, a config with TLS enabled
\* and the certificate, the key or the CA empty with ERR_TLS_CONFIG_ISNIL,
\* a config with no address that passes the TLS check with
\* ERR_ETCD_ADDRESS_EMPTY, each without handle and without connect; with
\* TLS disabled, empty certificate, key and CA make no failure.
C17_Validation ==
    \A p \in Procs :
        Built(p) =>
            LET cfg == req[p].cfg
            IN  /\ cfg.IsNil => FailsWith(p, ERR_CONFIG_ISNIL)
                /\ (~cfg.IsNil /\ TlsIncomplete(cfg)) => FailsWith(p, ERR_TLS_CONFIG_ISNIL)
                /\ (~cfg.IsNil /\ ~TlsIncomplete(cfg) /\ Len(cfg.Address) = 0)
                       => FailsWith(p, ERR_ETCD_ADDRESS_EMPTY)
                /\ (~cfg.IsNil /\ ~cfg.TlsEnable /\ Len(cfg.Address) > 0)
                       => res[p].err \in {NoErr, ErrConnect}

\* NewClient has failed on a config without address, and has returned a
\* handle for a config with TLS disabled and no certificate, key or CA.
C17_Witness ==
    \E p, q \in Procs :
        /\ Returned(p, "NewClient")
        /\ ~req[p].cfg.IsNil
        /\ Len(req[p].cfg.Address) = 0
        /\ FailsWith(p, ERR_ETCD_ADDRESS_EMPTY)
        /\ Returned(q, "NewClient")
        /\ ~req[q].cfg.IsNil
        /\ ~req[q].cfg.TlsEnable
        /\ req[q].cfg.CertFile = ""
        /\ req[q].cfg.KeyFile = ""
        /\ req[q].cfg.CaFile = ""
        /\ res[q].err = NoErr
        /\ res[q].client # <<>>

\* The scan of the List of caller p returned a key that cannot be decoded.
ScannedBad(p) ==
    /\ req[p].op = "List"
    /\ pc[p] \in {"List_Fetch", "idle"}
    /\ \E k \in scanned[p] : Malformed(k)

====
